---- MODULE Spec2Model ----
(***************************************************************************)
(* A model of the wgpu tutorial program: run() builds a window and a       *)
(* State (src/src/lib.rs, and the challenge-2 variant in                   *)
(* src/src/challenge-2.rs), then hands a closure to the winit event loop.  *)
(* The closure is modelled one event at a time; the GPU and the window     *)
(* system are the environment and appear as nondeterministic choices.      *)
(***************************************************************************)
EXTENDS Integers, Sequences, FiniteSets, TLC

\* Largest window dimension (width or height, in pixels) the environment reports.
MaxDim == 2
\* Largest cursor coordinate the environment reports.
MaxPos == 1

Dims == 0..MaxDim
Coords == 0..MaxPos

VARIABLES
    variant,          \* which of the two programs runs: "lib" or "challenge2"
    pc,               \* the statement of run()/State::new about to execute, then "loop"
    state,            \* struct State (the locals of State::new while it is being built)
    surface,          \* the surface as the GPU sees it: created, configured, extent
    device_objects,   \* the objects created on the device so far
    control_flow,     \* *control_flow of the event-loop closure
    redraw_pending,   \* the window has a redraw request that is not yet delivered
    event,            \* the event the closure handled last
    consumed,         \* what State::input returned for it: "true", "false", or "n/a"
                      \* if input was not called
    render_result,    \* what State::render returned for it ("n/a" if render was not called)
    calls,            \* the calls the closure made while handling it, in order
    requested_color,  \* history: the colour set by the last CursorMoved handled
    dropped           \* the handles of State (or locals of State::new) dropped so far

vars == <<variant, pc, state, surface, device_objects, control_flow, redraw_pending,
          event, consumed, render_result, calls, requested_color, dropped>>

Variants == {"lib", "challenge2"}

-----------------------------------------------------------------------------
(* f64 values that arise as quotients of small integers: <<n, d>> in lowest *)
(* terms, <<1, 0>> for +inf and <<0, 0>> for NaN.                           *)

RECURSIVE Gcd(_, _)
Gcd(a, b) == IF b = 0 THEN a ELSE Gcd(b, a % b)

F64(n) == <<n, 1>>

F64Div(n, d) ==
    IF d = 0 THEN (IF n = 0 THEN <<0, 0>> ELSE <<1, 0>>)
    ELSE <<n \div Gcd(n, d), d \div Gcd(n, d)>>

\* wgpu::Color::BLACK
BLACK == [r |-> F64(0), g |-> F64(0), b |-> F64(0), a |-> F64(1)]

\* A colour no code path produces: the value of clear_color before State exists.
NoColor == [r |-> <<0, 0>>, g |-> <<0, 0>>, b |-> <<0, 0>>, a |-> <<0, 0>>]

PhysicalSize(w, h) == [width |-> w, height |-> h]

-----------------------------------------------------------------------------
(* Static data.                                                             *)

\* The x and y of VERTICES, in units of 1e-8 (the z of every vertex is 0).
VERTICES == <<
    <<-8682410, 49240386>>,
    <<-49513406, 6958647>>,
    <<-21918549, -44939706>>,
    <<35966998, -34732910>>,
    <<44147372, 23473590>> >>

\* INDICES with the first triangle listed the other way round.
INDICES_first_reversed == <<0, 4, 1,  1, 2, 4,  2, 3, 4>>

INDICES == <<0, 1, 4,  1, 2, 4,  2, 3, 4>>

\* The primitive state of the render pipeline.
PrimitiveState == [topology |-> "TriangleList", front_face |-> "Ccw", cull_mode |-> "Back"]

\* Exact integer arithmetic on products of coordinates, which exceed 32 bits:
\* <<hi, lo>> stands for hi * 10^8 + lo with 0 <= lo < 10^8.
Limb == 10^4

WideNorm(hi, lo) == <<hi + (lo \div (Limb * Limb)), lo % (Limb * Limb)>>

WideMul(a, b) ==
    LET ah == a \div Limb
        al == a % Limb
        bh == b \div Limb
        bl == b % Limb
        mid == ah * bl + al * bh
    IN  WideNorm(ah * bh + (mid \div Limb), (mid % Limb) * Limb + al * bl)

WideSub(p, q) == WideNorm(p[1] - q[1], p[2] - q[2])

WideSign(p) ==
    IF p[1] > 0 \/ (p[1] = 0 /\ p[2] > 0) THEN 1
    ELSE IF p[1] = 0 /\ p[2] = 0 THEN 0
    ELSE -1

\* The t-th triangle of a TriangleList draw over INDICES[first .. end-1]: the
\* three positions of VERTICES it names.
Triangle(first, t) ==
    [k \in 1..3 |-> VERTICES[INDICES[first + 3 * (t - 1) + k] + 1]]

TriangleCount(first, end) == (end - first) \div 3

\* Twice the signed area of a triangle in the x-y plane: the cross product
\* (B - A) x (C - A).
SignedArea2(tri) ==
    WideSub(WideMul(tri[2][1] - tri[1][1], tri[3][2] - tri[1][2]),
            WideMul(tri[2][2] - tri[1][2], tri[3][1] - tri[1][1]))

Winding(tri) ==
    IF WideSign(SignedArea2(tri)) > 0 THEN "Ccw"
    ELSE IF WideSign(SignedArea2(tri)) < 0 THEN "Cw"
    ELSE "Degenerate"

\* Whether the rasterizer discards the triangle: with back-face culling, every
\* triangle whose winding is not the front face's.
Culled(prim, tri) == prim.cull_mode = "Back" /\ Winding(tri) # prim.front_face

-----------------------------------------------------------------------------
(* Start-up: run() up to event_loop.run, with State::new inlined.           *)

\* Start-up with the surface configured last.
StartupOrder_configure_last ==
    <<"build_window", "inner_size", "instance", "create_surface",
      "request_adapter", "request_device", "from_bytes", "bind_group", "pipeline",
      "vertex_buffer", "index_buffer", "construct", "configure">>

\* The statements of start-up in program order.
StartupOrder == <<"build_window", "inner_size", "instance", "create_surface",
                  "request_adapter", "request_device", "configure", "from_bytes",
                  "bind_group", "pipeline", "vertex_buffer", "index_buffer",
                  "construct">>

\* The statements only lib.rs has.
LibOnly == {"from_bytes", "bind_group", "vertex_buffer", "index_buffer"}

IsStepOf(v, s) == v = "lib" \/ s \notin LibOnly

Steps(v) == SelectSeq(StartupOrder, LAMBDA s : IsStepOf(v, s))

IndexOf(seq, s) == CHOOSE i \in 1..Len(seq) : seq[i] = s

StepAfter(v, s) ==
    LET i == IndexOf(Steps(v), s)
    IN  IF i = Len(Steps(v)) THEN "loop" ELSE Steps(v)[i + 1]

\* The locals of State::new before any of them is bound.
Unbuilt == [
    window |-> FALSE, instance |-> FALSE, surface |-> FALSE, adapter |-> FALSE,
    device |-> FALSE, queue |-> FALSE,
    config |-> PhysicalSize(0, 0), size |-> PhysicalSize(0, 0),
    clear_color |-> NoColor, use_color |-> FALSE,
    render_pipeline |-> 0, vertex_buffer |-> 0, index_buffer |-> 0,
    num_indices |-> 0, diffuse_bind_group |-> 0, diffuse_texture |-> "unbound" ]

NoEvent == [type |-> "none"]

Init ==
    /\ variant \in Variants
    /\ pc = "build_window"
    /\ state = Unbuilt
    /\ surface = [created |-> FALSE, configured |-> FALSE, width |-> 0, height |-> 0]
    /\ device_objects = {}
    /\ control_flow = "Poll"
    /\ redraw_pending = FALSE
    /\ event = NoEvent
    /\ consumed = "n/a"
    /\ render_result = "n/a"
    /\ calls = <<>>
    /\ requested_color = BLACK
    /\ dropped = {}

LoopVarsUnchanged ==
    UNCHANGED <<variant, control_flow, redraw_pending, event, consumed,
                render_result, calls, requested_color, dropped>>

\* An .unwrap() of start-up fails: the process panics before the loop starts.
Panic ==
    /\ pc \in {"build_window", "create_surface", "request_adapter", "request_device"}
    /\ pc' = "panicked"
    /\ UNCHANGED <<state, surface, device_objects>>
    /\ LoopVarsUnchanged

BuildWindow ==
    /\ pc = "build_window"
    /\ state' = [state EXCEPT !.window = TRUE]
    /\ pc' = StepAfter(variant, pc)
    /\ UNCHANGED <<surface, device_objects>>
    /\ LoopVarsUnchanged

NewInnerSize ==
    /\ pc = "inner_size"
    /\ \E w \in Dims, h \in Dims : state' = [state EXCEPT !.size = PhysicalSize(w, h)]
    /\ pc' = StepAfter(variant, pc)
    /\ UNCHANGED <<surface, device_objects>>
    /\ LoopVarsUnchanged

NewInstance ==
    /\ pc = "instance"
    /\ state' = [state EXCEPT !.instance = TRUE]
    /\ pc' = StepAfter(variant, pc)
    /\ UNCHANGED <<surface, device_objects>>
    /\ LoopVarsUnchanged

NewCreateSurface ==
    /\ pc = "create_surface"
    /\ state' = [state EXCEPT !.surface = TRUE]
    /\ surface' = [surface EXCEPT !.created = TRUE]
    /\ pc' = StepAfter(variant, pc)
    /\ UNCHANGED device_objects
    /\ LoopVarsUnchanged

NewRequestAdapter ==
    /\ pc = "request_adapter"
    /\ state' = [state EXCEPT !.adapter = TRUE]
    /\ pc' = StepAfter(variant, pc)
    /\ UNCHANGED <<surface, device_objects>>
    /\ LoopVarsUnchanged

NewRequestDevice ==
    /\ pc = "request_device"
    /\ state' = [state EXCEPT !.device = TRUE, !.queue = TRUE]
    /\ pc' = StepAfter(variant, pc)
    /\ UNCHANGED <<surface, device_objects>>
    /\ LoopVarsUnchanged

\* config is built from size and handed to surface.configure. A zero extent
\* may crash inside the graphics library, or be accepted.
NewConfigure ==
    /\ pc = "configure"
    /\ \/ /\ state' = [state EXCEPT !.config = state.size]
          /\ surface' = [surface EXCEPT !.configured = TRUE,
                                        !.width = state.size.width,
                                        !.height = state.size.height]
          /\ pc' = StepAfter(variant, pc)
       \/ /\ state.size.width = 0 \/ state.size.height = 0
          /\ pc' = "panicked"
          /\ UNCHANGED <<state, surface>>
    /\ UNCHANGED device_objects
    /\ LoopVarsUnchanged

\* A from_bytes that loads the image: a texture, its view and a sampler.
Texture_from_bytes_loading ==
    [created |-> {"diffuse_texture", "diffuse_view", "diffuse_sampler"}, ret |-> "Texture"]

\* Texture::from_bytes as texture.rs defines it: no parameters, an empty body.
\* created: the device objects the call makes; ret: what it evaluates to.
Texture_from_bytes == [created |-> {}, ret |-> "unit"]

\* lib.rs binds diffuse_texture to what from_bytes(device, queue, bytes, label)
\* evaluates to; the arguments have no parameter to land in.
NewFromBytes ==
    /\ pc = "from_bytes"
    /\ state' = [state EXCEPT !.diffuse_texture = Texture_from_bytes.ret]
    /\ device_objects' = device_objects \cup Texture_from_bytes.created
    /\ pc' = StepAfter(variant, pc)
    /\ UNCHANGED surface
    /\ LoopVarsUnchanged

NewBindGroup ==
    /\ pc = "bind_group"
    /\ state' = [state EXCEPT !.diffuse_bind_group = 1]
    /\ device_objects' = device_objects \cup {"texture_bind_group_layout", "diffuse_bind_group"}
    /\ pc' = StepAfter(variant, pc)
    /\ UNCHANGED surface
    /\ LoopVarsUnchanged

NewPipeline ==
    /\ pc = "pipeline"
    /\ state' = [state EXCEPT !.render_pipeline = 1]
    /\ device_objects' = device_objects \cup {"shader", "render_pipeline_layout", "render_pipeline"}
    /\ pc' = StepAfter(variant, pc)
    /\ UNCHANGED surface
    /\ LoopVarsUnchanged

NewVertexBuffer ==
    /\ pc = "vertex_buffer"
    /\ state' = [state EXCEPT !.vertex_buffer = 1]
    /\ device_objects' = device_objects \cup {"vertex_buffer"}
    /\ pc' = StepAfter(variant, pc)
    /\ UNCHANGED surface
    /\ LoopVarsUnchanged

\* num_indices taken from the vertex count.
NumIndices_vertices == Len(VERTICES)

\* let num_indices = INDICES.len() as u32
NumIndices == Len(INDICES)

NewIndexBuffer ==
    /\ pc = "index_buffer"
    /\ state' = [state EXCEPT !.index_buffer = 1, !.num_indices = NumIndices]
    /\ device_objects' = device_objects \cup {"index_buffer"}
    /\ pc' = StepAfter(variant, pc)
    /\ UNCHANGED surface
    /\ LoopVarsUnchanged

\* The colour Self { .. } starts with.
InitialClearColor == BLACK

\* Self { .. }: State::new returns and run() enters event_loop.run.
NewConstruct ==
    /\ pc = "construct"
    /\ state' = [state EXCEPT !.clear_color = InitialClearColor,
                              !.use_color = (variant = "challenge2")]
    /\ pc' = StepAfter(variant, pc)
    /\ UNCHANGED <<surface, device_objects>>
    /\ LoopVarsUnchanged

Startup ==
    \/ Panic
    \/ BuildWindow
    \/ NewInnerSize
    \/ NewInstance
    \/ NewCreateSurface
    \/ NewRequestAdapter
    \/ NewRequestDevice
    \/ NewConfigure
    \/ NewFromBytes
    \/ NewBindGroup
    \/ NewPipeline
    \/ NewVertexBuffer
    \/ NewIndexBuffer
    \/ NewConstruct

-----------------------------------------------------------------------------
(* The methods of State. Each takes the struct (and what else it reads) and *)
(* gives the struct after the call, its return value and the calls it made. *)

Call(op) == [op |-> op]

\* State::resize that also builds the vertex and index buffers anew.
State_resize_rebuilds(self, surf, new_size) ==
    IF new_size.width > 0 /\ new_size.height > 0
    THEN [self |-> [self EXCEPT !.size = new_size,
                                !.config = PhysicalSize(new_size.width, new_size.height),
                                !.vertex_buffer = 2, !.index_buffer = 2],
          surface |-> [surf EXCEPT !.configured = TRUE,
                                   !.width = new_size.width,
                                   !.height = new_size.height],
          log |-> <<[op |-> "resize", width |-> new_size.width, height |-> new_size.height],
                    [op |-> "configure", width |-> new_size.width, height |-> new_size.height]>>]
    ELSE [self |-> self, surface |-> surf,
          log |-> <<[op |-> "resize", width |-> new_size.width, height |-> new_size.height]>>]

\* State::resize accepting a size as soon as one dimension is positive.
State_resize_either(self, surf, new_size) ==
    IF new_size.width > 0 \/ new_size.height > 0
    THEN [self |-> [self EXCEPT !.size = new_size,
                                !.config = PhysicalSize(new_size.width, new_size.height)],
          surface |-> [surf EXCEPT !.configured = TRUE,
                                   !.width = new_size.width,
                                   !.height = new_size.height],
          log |-> <<[op |-> "resize", width |-> new_size.width, height |-> new_size.height],
                    [op |-> "configure", width |-> new_size.width, height |-> new_size.height]>>]
    ELSE [self |-> self, surface |-> surf,
          log |-> <<[op |-> "resize", width |-> new_size.width, height |-> new_size.height]>>]

\* State::resize; surf is the surface as the GPU sees it.
State_resize(self, surf, new_size) ==
    IF new_size.width > 0 /\ new_size.height > 0
    THEN [self |-> [self EXCEPT !.size = new_size,
                                !.config = PhysicalSize(new_size.width, new_size.height)],
          surface |-> [surf EXCEPT !.configured = TRUE,
                                   !.width = new_size.width,
                                   !.height = new_size.height],
          log |-> <<[op |-> "resize", width |-> new_size.width, height |-> new_size.height],
                    [op |-> "configure", width |-> new_size.width, height |-> new_size.height]>>]
    ELSE [self |-> self, surface |-> surf,
          log |-> <<[op |-> "resize", width |-> new_size.width, height |-> new_size.height]>>]

\* CursorColor with the two extents exchanged.
CursorColor_swapped(self, ev) ==
    [r |-> F64Div(ev.x, self.size.height),
     g |-> F64Div(ev.y, self.size.width),
     b |-> F64(1),
     a |-> F64(1)]

\* The CursorMoved arm of State::input, the same in both programs.
CursorColor(self, ev) ==
    [r |-> F64Div(ev.x, self.size.width),
     g |-> F64Div(ev.y, self.size.height),
     b |-> F64(1),
     a |-> F64(1)]

\* State::input of lib.rs.
State_input_lib(self, ev) ==
    IF ev.type = "CursorMoved"
    THEN [self |-> [self EXCEPT !.clear_color = CursorColor(self, ev)], ret |-> TRUE]
    ELSE [self |-> self, ret |-> FALSE]

\* State::input of challenge-2.rs with Space flipping use_color.
State_input_challenge2_flip(self, ev) ==
    IF ev.type = "CursorMoved"
    THEN [self |-> [self EXCEPT !.clear_color = CursorColor(self, ev)], ret |-> TRUE]
    ELSE IF ev.type = "KeyboardInput" /\ ev.key = "Space"
    THEN [self |-> [self EXCEPT !.use_color = ~self.use_color], ret |-> TRUE]
    ELSE [self |-> self, ret |-> FALSE]

\* State::input of challenge-2.rs.
State_input_challenge2(self, ev) ==
    IF ev.type = "CursorMoved"
    THEN [self |-> [self EXCEPT !.clear_color = CursorColor(self, ev)], ret |-> TRUE]
    ELSE IF ev.type = "KeyboardInput" /\ ev.key = "Space"
    THEN [self |-> [self EXCEPT !.use_color = (ev.state = "Released")], ret |-> TRUE]
    ELSE [self |-> self, ret |-> FALSE]

State_input(v, self, ev) ==
    IF v = "lib" THEN State_input_lib(self, ev) ELSE State_input_challenge2(self, ev)

\* State::update resetting the colour every frame.
State_update_reset(self) == [self EXCEPT !.clear_color = BLACK]

\* State::update has an empty body.
State_update(self) == self

\* The draw commands State::render records in its render pass.
DrawCommands(v, self) ==
    IF v = "lib"
    THEN <<[op |-> "set_pipeline", pipeline |-> self.render_pipeline],
           [op |-> "set_bind_group", group |-> self.diffuse_bind_group],
           [op |-> "set_vertex_buffer", buffer |-> self.vertex_buffer],
           [op |-> "set_index_buffer", buffer |-> self.index_buffer],
           [op |-> "draw_indexed", first |-> 0, end |-> self.num_indices,
            base_vertex |-> 0, first_instance |-> 0, end_instance |-> 1]>>
    ELSE <<[op |-> "set_pipeline", pipeline |-> self.render_pipeline],
           [op |-> "draw", first |-> 0, end |-> 3,
            first_instance |-> 0, end_instance |-> 1]>>

\* State::render; acquired is what surface.get_current_texture() gives.
State_render(v, self, acquired) ==
    IF acquired # "Ok"
    THEN [ret |-> acquired, log |-> <<Call("get_current_texture")>>]
    ELSE [ret |-> "Ok",
          log |-> <<Call("get_current_texture"), Call("create_view"),
                    Call("create_command_encoder"),
                    [op |-> "begin_render_pass", clear |-> self.clear_color]>>
                  \o DrawCommands(v, self)
                  \o <<Call("end_render_pass"), Call("submit"), Call("present")>>]

-----------------------------------------------------------------------------
(* The events the winit loop hands to the closure. Only one window exists,  *)
(* so every window event and redraw request carries its id.                 *)

Keys == {"Space", "Escape", "Other"}
ElementStates == {"Pressed", "Released"}

WindowEvents ==
    {[type |-> "CursorMoved", x |-> x, y |-> y] : x \in Coords, y \in Coords}
    \cup {[type |-> "KeyboardInput", key |-> k, state |-> s] : k \in Keys, s \in ElementStates}
    \cup {[type |-> t, size |-> PhysicalSize(w, h)] :
             t \in {"Resized", "ScaleFactorChanged"}, w \in Dims, h \in Dims}
    \cup {[type |-> "CloseRequested"], [type |-> "Focused"]}

\* What surface.get_current_texture() can give: a texture or a SurfaceError.
Acquired == {"Ok", "Lost", "Timeout", "Outdated", "OutOfMemory"}

\* The Event::WindowEvent arm of the closure.
OnWindowEvent(v, self, surf, cf, ev) ==
    LET in == State_input(v, self, ev)
    IN  IF in.ret
        THEN [self |-> in.self, surface |-> surf, control_flow |-> cf,
              consumed |-> "true", log |-> <<Call("input")>>]
        ELSE IF \/ ev.type = "CloseRequested"
                \/ /\ ev.type = "KeyboardInput"
                   /\ ev.state = "Pressed"
                   /\ ev.key = "Escape"
        THEN [self |-> in.self, surface |-> surf, control_flow |-> "Exit",
              consumed |-> "false", log |-> <<Call("input")>>]
        ELSE IF ev.type \in {"Resized", "ScaleFactorChanged"}
        THEN LET r == State_resize(in.self, surf, ev.size)
             IN  [self |-> r.self, surface |-> r.surface, control_flow |-> cf,
                  consumed |-> "false", log |-> <<Call("input")>> \o r.log]
        ELSE [self |-> in.self, surface |-> surf, control_flow |-> cf,
              consumed |-> "false", log |-> <<Call("input")>>]

\* The RedrawRequested arm leaving the loop on every render error.
OnRedrawRequested_exit_on_error(v, self, surf, cf, acquired) ==
    LET u == State_update(self)
        r == State_render(v, u, acquired)
        head == <<Call("update"), Call("render")>> \o r.log
    IN  [self |-> u, surface |-> surf,
         control_flow |-> IF r.ret = "Ok" THEN cf ELSE "Exit",
         ret |-> r.ret, log |-> head]

\* The Event::RedrawRequested arm of the closure.
OnRedrawRequested(v, self, surf, cf, acquired) ==
    LET u == State_update(self)
        r == State_render(v, u, acquired)
        head == <<Call("update"), Call("render")>> \o r.log
    IN  IF r.ret = "Ok"
        THEN [self |-> u, surface |-> surf, control_flow |-> cf,
              ret |-> r.ret, log |-> head]
        ELSE IF r.ret = "Lost"
        THEN LET z == State_resize(u, surf, u.size)
             IN  [self |-> z.self, surface |-> z.surface, control_flow |-> cf,
                  ret |-> r.ret, log |-> head \o z.log]
        ELSE IF r.ret = "OutOfMemory"
        THEN [self |-> u, surface |-> surf, control_flow |-> "Exit",
              ret |-> r.ret, log |-> head]
        ELSE [self |-> u, surface |-> surf, control_flow |-> cf,
              ret |-> r.ret, log |-> head \o <<Call("eprintln")>>]

\* The MainEventsCleared arm without the request.
OnMainEventsCleared_no_request(pending) == pending

\* The Event::MainEventsCleared arm: window.request_redraw(). The argument is
\* whether a request was already pending; the result, whether one is now.
OnMainEventsCleared(pending) == TRUE

WindowEventArrives ==
    /\ pc = "loop"
    /\ \E ev \in WindowEvents :
       \E h \in {OnWindowEvent(variant, state, surface, control_flow, ev)} :
              /\ event' = ev
              /\ state' = h.self
              /\ surface' = h.surface
              /\ control_flow' = h.control_flow
              /\ consumed' = h.consumed
              /\ calls' = h.log
              /\ requested_color' =
                    IF ev.type = "CursorMoved" THEN h.self.clear_color
                    ELSE requested_color
    /\ render_result' = "n/a"
    /\ UNCHANGED <<variant, pc, device_objects, redraw_pending, dropped>>

Redraw ==
    /\ pc = "loop"
    /\ \E acquired \in Acquired :
       \E h \in {OnRedrawRequested(variant, state, surface, control_flow, acquired)} :
              /\ state' = h.self
              /\ surface' = h.surface
              /\ control_flow' = h.control_flow
              /\ render_result' = h.ret
              /\ calls' = h.log
    /\ event' = [type |-> "RedrawRequested"]
    /\ consumed' = "n/a"
    /\ redraw_pending' = FALSE
    /\ UNCHANGED <<variant, pc, device_objects, requested_color, dropped>>

\* The redraw the window asked for with request_redraw() is delivered.
RequestedRedrawArrives == redraw_pending /\ Redraw

\* The window system asks for a redraw of its own accord (an expose).
SystemRedrawArrives == ~redraw_pending /\ Redraw

MainEventsClearedArrives ==
    /\ pc = "loop"
    /\ event' = [type |-> "MainEventsCleared"]
    /\ redraw_pending' = OnMainEventsCleared(redraw_pending)
    /\ calls' = IF redraw_pending' THEN <<Call("request_redraw")>> ELSE <<>>
    /\ consumed' = "n/a"
    /\ render_result' = "n/a"
    /\ UNCHANGED <<variant, pc, state, surface, device_objects, control_flow,
                   requested_color, dropped>>

\* Any other event (NewEvents, RedrawEventsCleared, a device event): `_ => {}`.
OtherEventArrives ==
    /\ pc = "loop"
    /\ event' = [type |-> "Other"]
    /\ calls' = <<>>
    /\ consumed' = "n/a"
    /\ render_result' = "n/a"
    /\ UNCHANGED <<variant, pc, state, surface, device_objects, control_flow,
                   redraw_pending, requested_color, dropped>>

\* With control flow at Exit the loop sends LoopDestroyed (`_ => {}`) and stops.
LoopDestroyedArrives ==
    /\ pc = "loop"
    /\ control_flow = "Exit"
    /\ event' = [type |-> "LoopDestroyed"]
    /\ calls' = <<>>
    /\ consumed' = "n/a"
    /\ render_result' = "n/a"
    /\ pc' = "exited"
    /\ UNCHANGED <<variant, state, surface, device_objects, control_flow,
                   redraw_pending, requested_color, dropped>>

-----------------------------------------------------------------------------
(* Teardown. When the loop has stopped the closure, and the State it owns,  *)
(* is dropped; when start-up panics the locals of State::new are dropped as *)
(* the stack unwinds. A process that ends without dropping takes no step.   *)

\* State with window declared ahead of the GPU handles.
StateFieldOrder_window_first ==
    <<"window", "instance", "adapter", "surface", "device", "queue">>

\* The handles of struct State in declaration order, the order a State drops
\* its fields in.
StateFieldOrder == <<"instance", "adapter", "surface", "device", "queue", "window">>

\* The parameter and the handle locals of State::new in binding order.
NewLocalOrder == <<"window", "instance", "surface", "adapter", "device", "queue">>

Reverse(seq) == [i \in 1..Len(seq) |-> seq[Len(seq) + 1 - i]]

\* Of the handles in order, those bound and not yet dropped.
Held(order) == SelectSeq(order, LAMBDA f : state[f] /\ f \notin dropped)

TeardownUnchanged ==
    UNCHANGED <<variant, pc, state, surface, device_objects, control_flow,
                redraw_pending, event, consumed, render_result, calls,
                requested_color>>

\* The next field of the State the closure owned is dropped.
DropStateField ==
    /\ pc = "exited"
    /\ Held(StateFieldOrder) # <<>>
    /\ dropped' = dropped \cup {Head(Held(StateFieldOrder))}
    /\ TeardownUnchanged

\* Unwinding drops the latest bound local of State::new, the parameter last.
UnwindLocal ==
    /\ pc = "panicked"
    /\ Held(Reverse(NewLocalOrder)) # <<>>
    /\ dropped' = dropped \cup {Head(Held(Reverse(NewLocalOrder)))}
    /\ TeardownUnchanged

Next ==
    \/ Startup
    \/ WindowEventArrives
    \/ RequestedRedrawArrives
    \/ SystemRedrawArrives
    \/ MainEventsClearedArrives
    \/ OtherEventArrives
    \/ LoopDestroyedArrives
    \/ DropStateField
    \/ UnwindLocal

Spec == Init /\ [][Next]_vars

\* winit delivers a requested redraw: RedrawRequested follows request_redraw().
FairSpec == Spec /\ WF_vars(RequestedRedrawArrives)

-----------------------------------------------------------------------------
(* Properties.                                                              *)

InLoop == pc = "loop"
Running == pc \in {"loop", "exited"}

HasCall(log, op) == \E i \in DOMAIN log : log[i].op = op
CallsOf(log, op) == SelectSeq(log, LAMBDA c : c.op = op)
PositionOf(log, op) == CHOOSE i \in DOMAIN log : log[i].op = op

\* A frame was rendered and presented while handling the last event.
FrameRendered == event.type = "RedrawRequested" /\ render_result = "Ok"

\* C1: every CursorMoved event at (x, y) sets clear_color to
\* (x / size.width, y / size.height, 1, 1), with the size stored when the event
\* arrives, and State::input returns true; in lib.rs no other event changes
\* clear_color.
C1_CursorMovedSetsClearColor ==
    [][ InLoop =>
          IF event'.type = "CursorMoved"
          THEN /\ state'.clear_color.r = F64Div(event'.x, state.size.width)
               /\ state'.clear_color.g = F64Div(event'.y, state.size.height)
               /\ state'.clear_color.b = F64(1)
               /\ state'.clear_color.a = F64(1)
               /\ consumed' = "true"
          ELSE variant = "lib" => state'.clear_color = state.clear_color ]_vars

C1_Witness ==
    /\ InLoop
    /\ event.type = "CursorMoved"
    /\ event.x = 1 /\ event.y = 0
    /\ state.size = PhysicalSize(2, 1)
    /\ state.clear_color = [r |-> <<1, 2>>, g |-> <<0, 1>>, b |-> <<1, 1>>, a |-> <<1, 1>>]
    /\ consumed = "true"

IsSpace(ev) == ev.type = "KeyboardInput" /\ ev.key = "Space"

\* C2 as stated: in challenge-2 every Space KeyboardInput event negates
\* use_color.
C2_SpaceNegatesUseColor ==
    [][ (InLoop /\ variant = "challenge2" /\ IsSpace(event'))
          => state'.use_color = ~state.use_color ]_vars

\* C2 as amended: in challenge-2 every Space KeyboardInput event sets use_color
\* to whether the key was released: false on a press, true on a release,
\* whatever use_color was before; State::input returns true.
C2_SpaceSetsUseColorToReleased ==
    [][ (InLoop /\ variant = "challenge2" /\ IsSpace(event'))
          => /\ state'.use_color = (event'.state = "Released")
             /\ consumed' = "true" ]_vars

C2_Witness ==
    /\ InLoop
    /\ variant = "challenge2"
    /\ IsSpace(event)
    /\ event.state = "Pressed"
    /\ state.use_color = FALSE
    /\ control_flow = "Poll"

\* C3: a RedrawRequested whose render returns OutOfMemory sets control flow to
\* Exit; one whose render returns Ok, Lost, Timeout or Outdated leaves control
\* flow as it was and the loop goes on.
C3_OnlyOutOfMemoryExits ==
    [][ (InLoop /\ event'.type = "RedrawRequested")
          => /\ render_result' = "OutOfMemory" => control_flow' = "Exit"
             /\ render_result' # "OutOfMemory"
                  => control_flow' = control_flow /\ pc' = "loop" ]_vars

C3_Witness ==
    /\ InLoop
    /\ event.type = "RedrawRequested"
    /\ render_result = "OutOfMemory"
    /\ control_flow = "Exit"

\* C4: clear_color always is the colour the last CursorMoved set, or black when
\* there was none, so update and render never change it; and the render pass of
\* every rendered frame clears to exactly that colour.
C4_FrameClearsToRequestedColor ==
    /\ Running => state.clear_color = requested_color
    /\ FrameRendered =>
          /\ Len(CallsOf(calls, "begin_render_pass")) = 1
          /\ CallsOf(calls, "begin_render_pass")[1].clear = requested_color

C4_Witness ==
    /\ FrameRendered
    /\ requested_color # BLACK
    /\ CallsOf(calls, "begin_render_pass")[1].clear = requested_color

Resources ==
    <<state.render_pipeline, state.vertex_buffer, state.index_buffer,
      state.diffuse_bind_group, state.diffuse_texture, device_objects>>

\* C6: start-up follows the stated order (window, surface, then adapter, then
\* device and queue, then the configured surface, then pipeline and buffers);
\* no event is handled before State::new has completed, so every frame finds a
\* configured surface and a built pipeline; and inside a frame the clear and
\* the draw are recorded before the present.
C6_StartupOrderThenFrames ==
    /\ state.surface => state.window /\ state.instance
    /\ state.adapter => state.surface
    /\ state.device => state.adapter
    /\ state.queue => state.device
    /\ surface.configured => state.device /\ state.queue
    /\ state.render_pipeline # 0 => surface.configured
    /\ state.vertex_buffer # 0 => surface.configured
    /\ state.index_buffer # 0 => surface.configured
    /\ (event # NoEvent \/ Running) =>
          /\ Running
          /\ surface.configured
          /\ state.render_pipeline # 0
          /\ variant = "lib" => state.vertex_buffer # 0 /\ state.index_buffer # 0
    /\ FrameRendered =>
          LET draw == IF variant = "lib" THEN "draw_indexed" ELSE "draw"
          IN  /\ HasCall(calls, "begin_render_pass")
              /\ HasCall(calls, draw)
              /\ HasCall(calls, "present")
              /\ PositionOf(calls, "begin_render_pass") < PositionOf(calls, draw)
              /\ PositionOf(calls, draw) < PositionOf(calls, "present")
              /\ Len(CallsOf(calls, "present")) = 1

C6_Witness ==
    /\ FrameRendered
    /\ surface.configured
    /\ state.render_pipeline = 1
    /\ HasCall(calls, "present")

\* C7 as stated: whenever State::render returns Lost, the surface is configured
\* again, with the current config, while that RedrawRequested is handled.
C7_LostReconfigures ==
    (event.type = "RedrawRequested" /\ render_result = "Lost") =>
        \E i \in DOMAIN calls :
            /\ calls[i].op = "configure"
            /\ calls[i].width = state.config.width
            /\ calls[i].height = state.config.height

\* C8: every MainEventsCleared calls request_redraw, and, unless control flow
\* is set to Exit, is eventually followed by a RedrawRequested whose handler
\* calls update and then render.
C8_RedrawFollowsMainEventsCleared ==
    /\ [](event.type = "MainEventsCleared"
            => redraw_pending /\ calls = <<Call("request_redraw")>>)
    /\ (event.type = "MainEventsCleared" /\ control_flow # "Exit")
          ~> \/ control_flow = "Exit"
             \/ /\ event.type = "RedrawRequested"
                /\ Len(calls) >= 2
                /\ calls[1].op = "update"
                /\ calls[2].op = "render"

C8_Witness ==
    /\ InLoop
    /\ event.type = "MainEventsCleared"
    /\ redraw_pending
    /\ control_flow = "Poll"
    /\ HasCall(calls, "request_redraw")

\* C9: once State::new has returned no event replaces or modifies the render
\* pipeline, the vertex buffer, the index buffer, the bind group or the
\* texture, and none creates a device object; the surface is the only thing
\* configured again, and only inside State::resize.
C9_OnlyTheSurfaceIsReconfigured ==
    [][ InLoop =>
          /\ Resources' = Resources
          /\ surface' # surface => HasCall(calls', "resize")
          /\ \A i \in DOMAIN calls' :
                calls'[i].op = "configure" => i > 1 /\ calls'[i - 1].op = "resize" ]_vars

C9_Witness ==
    /\ InLoop
    /\ event.type = "Resized"
    /\ HasCall(calls, "configure")
    /\ surface.width = 2 /\ surface.height = 1
    /\ state.render_pipeline = 1
    /\ variant = "lib" /\ state.vertex_buffer = 1 /\ state.index_buffer = 1

\* The statements of State::new (lib.rs) that follow the from_bytes call.
AfterFromBytes ==
    {"bind_group", "pipeline", "vertex_buffer", "index_buffer", "construct", "loop", "exited"}

\* C10: Texture::from_bytes creates no texture, view or sampler and returns no
\* Texture: the call in State::new leaves the device as it was, and what
\* diffuse_texture is bound to is never a Texture.
C10_FromBytesIsAStub ==
    /\ state.diffuse_texture # "Texture"
    /\ device_objects \cap {"diffuse_texture", "diffuse_view", "diffuse_sampler"} = {}
    /\ (variant = "lib" /\ pc \in AfterFromBytes) => state.diffuse_texture = "unit"
    /\ (variant = "lib" /\ pc = "bind_group") => device_objects = {}

C10_Witness ==
    /\ variant = "lib"
    /\ pc = "bind_group"
    /\ state.diffuse_texture = "unit"

\* The triangles the draw_indexed call of the last frame covers.
DrawnTriangles ==
    LET d == CallsOf(calls, "draw_indexed")[1]
    IN  [t \in 1..TriangleCount(d.first, d.end) |-> Triangle(d.first, t)]

\* C11: the three triangles a frame of lib.rs draws, (0,1,4), (1,2,4) and
\* (2,3,4), each name their VERTICES positions counter-clockwise (positive
\* signed area in the x-y plane), so with front_face = Ccw and cull_mode = Back
\* none of them is culled.
C11_TrianglesAreCounterClockwise ==
    (variant = "lib" /\ FrameRendered) =>
        /\ PrimitiveState.front_face = "Ccw"
        /\ PrimitiveState.cull_mode = "Back"
        /\ Len(DrawnTriangles) = 3
        /\ DrawnTriangles[1] = <<VERTICES[1], VERTICES[2], VERTICES[5]>>
        /\ DrawnTriangles[2] = <<VERTICES[2], VERTICES[3], VERTICES[5]>>
        /\ DrawnTriangles[3] = <<VERTICES[3], VERTICES[4], VERTICES[5]>>
        /\ \A t \in DOMAIN DrawnTriangles :
              /\ WideSign(SignedArea2(DrawnTriangles[t])) > 0
              /\ Winding(DrawnTriangles[t]) = "Ccw"
              /\ ~Culled(PrimitiveState, DrawnTriangles[t])

C11_Witness ==
    /\ variant = "lib"
    /\ FrameRendered
    /\ Len(DrawnTriangles) = 3
    /\ Winding(DrawnTriangles[3]) = "Ccw"
    /\ SignedArea2(DrawnTriangles[1]) # <<0, 0>>

\* C12: the surface does not outlive the window: in every execution, teardown
\* after Exit and unwinding from a start-up panic included, the window is
\* dropped only when the surface, if one was created, is already dropped; and
\* once anything of State is dropped the loop is over, so no handler renders to
\* the surface after the window is gone.
C12_SurfaceDoesNotOutliveWindow ==
    /\ "window" \in dropped => (state.surface => "surface" \in dropped)
    /\ dropped # {} => pc \in {"exited", "panicked"}
    /\ HasCall(calls, "render") => dropped = {}
    /\ InLoop => state.window /\ state.surface

C12_Witness ==
    /\ pc = "exited"
    /\ control_flow = "Exit"
    /\ state.surface /\ state.window
    /\ "surface" \in dropped
    /\ "window" \notin dropped

IsResize(ev) == ev.type \in {"Resized", "ScaleFactorChanged"}

\* C13: a Resized or ScaleFactorChanged event whose size has a zero width or
\* height leaves size, config.width and config.height as they were and
\* configures nothing; one whose size has both dimensions positive sets size,
\* config.width and config.height to it and configures the surface exactly
\* once, with that extent.
C13_ResizeIgnoresZeroExtent ==
    [][ (InLoop /\ IsResize(event')) =>
          /\ HasCall(calls', "resize")
          /\ IF event'.size.width > 0 /\ event'.size.height > 0
             THEN /\ state'.size = event'.size
                  /\ state'.config.width = event'.size.width
                  /\ state'.config.height = event'.size.height
                  /\ CallsOf(calls', "configure") =
                        <<[op |-> "configure", width |-> event'.size.width,
                           height |-> event'.size.height]>>
                  /\ surface'.configured
                  /\ surface'.width = event'.size.width
                  /\ surface'.height = event'.size.height
             ELSE /\ state'.size = state.size
                  /\ state'.config = state.config
                  /\ ~HasCall(calls', "configure")
                  /\ surface' = surface ]_vars

C13_Witness ==
    /\ InLoop
    /\ event.type = "ScaleFactorChanged"
    /\ event.size = PhysicalSize(1, 2)
    /\ state.size = PhysicalSize(1, 2)
    /\ state.config = PhysicalSize(1, 2)
    /\ Len(CallsOf(calls, "configure")) = 1
====
